---- MODULE Spec2Model ----
(***************************************************************************)
(* Model of src/src/ssh.rs: exec (authenticate, provision the remote       *)
(* workspace, mirror the local tree, run the command and drain its two     *)
(* output streams), sftp_mkdir_recursive, upload_dir and upload_file,      *)
(* together with the environment they run against: the SSH server and its  *)
(* SFTP file system, another actor on that file system, the remote command *)
(* and the packets it sends, and the connection.                           *)
(***************************************************************************)
EXTENDS Integers, Sequences, FiniteSets, TLC

VARIABLES
    pc,             \* position of exec (or of sftp_mkdir_recursive)
    result,         \* "Running", "Ok" or "Err": what exec returned
    reported,       \* the exit status printed at line 129, or NoStatus
    authKind,       \* conf.auth: "Password", "AuthKey" or "Agent"
    authResult,     \* "none", "ok" or "failed"
    identities,     \* number of identities the agent listed, or -1
    ops,            \* set of remote operations performed so far
    linkDown,       \* the connection to the server is lost
    blocking,       \* the session's blocking mode
    fs,             \* remote file system: path -> "absent", "dir" or contents
    mkIdx,          \* sftp_mkdir_recursive: index of the current component
    call,           \* sftp_mkdir_recursive: number of the call in progress
    mkdirCount,     \* mkdirs issued by the call in progress
    extTouched,     \* another actor changed the file system during the call
    fsAtCall,       \* the file system when the call in progress started
    walk,           \* the entries the walker yields, in order
    wi,             \* upload_dir: index of the next entry
    dirErrs,        \* upload_dir: directory-creation errors logged
    srv,            \* remote command: "idle", "running", "exited"
    cmdRan,         \* the user command was started by the remote shell
    exitCode,       \* the remote command's exit code, or NoStatus
    emittedOut,     \* all bytes the command wrote to standard output
    emittedErr,     \* all bytes the command wrote to standard error
    srvSent,        \* which of "eof", "status", "close" the server has sent
    wire,           \* packets sent by the server, not yet read by the client
    qOut,           \* libssh2: received, unread standard-output bytes
    qErr,           \* libssh2: received, unread standard-error bytes
    remoteEof,      \* libssh2: channel->remote.eof
    remoteClose,    \* libssh2: channel->remote.close
    chanStatus,     \* libssh2: channel->exit_status
    is_data_available, \* the loop's flag
    sinkOut,        \* characters printed to the local standard output
    sinkErr,        \* characters printed to the local standard error
    readFailed      \* a stream read returned an error other than WouldBlock

vars == <<pc, result, reported, authKind, authResult, identities, ops,
          linkDown, blocking, fs, mkIdx, call, mkdirCount, extTouched,
          fsAtCall, walk, wi, dirErrs, srv, cmdRan, exitCode, emittedOut,
          emittedErr, srvSent, wire, qOut, qErr, remoteEof, remoteClose,
          chanStatus, is_data_available, sinkOut, sinkErr, readFailed>>

authVars == <<authKind, authResult, identities>>
mkVars   == <<mkIdx, call, mkdirCount, extTouched, fsAtCall>>
walkVars == <<walk, wi, dirErrs>>
srvVars  == <<srv, cmdRan, exitCode, emittedOut, emittedErr, srvSent, wire>>
chanVars == <<qOut, qErr, remoteEof, remoteClose, chanStatus>>
loopVars == <<is_data_available, sinkOut, sinkErr, readFailed>>

----------------------------------------------------------------------------
(* Bounds *)

\* most bytes a remote command writes, both streams together, when the
\* drain loop is examined on its own
MaxOut == 3
\* most bytes a remote command writes in a whole run of exec
MaxOutRun == 1
\* most identities an agent lists
MaxIdent == 1
\* size of the read buffer, scaled down from 4096
BufSize == 2

NoStatus == -1

\* exit codes a user command may end with
ExitCodes == {0, 7}
\* exit code of the shell when "cd <workspace>/container" fails
CdFailCode == 1

\* byte classes: an ASCII byte, the lead byte of a two-byte UTF-8 sequence,
\* a continuation byte
Bytes == {"a", "L", "C"}

----------------------------------------------------------------------------
(* Remote paths *)

\* remote_dir = ".cserun/temp/<timestamp>" (lines 63-67)
remote_dir_path == <<".cserun", "temp", "ts">>

\* remote_dir_path.join("command.txt") (line 75)
command_txt == Append(remote_dir_path, "command.txt")

\* remote_dir_path.join("container") (line 80)
container_path == Append(remote_dir_path, "container")

\* path.components() pushed one by one onto current_path (lines 135-137)
current_path(i) == SubSeq(remote_dir_path, 1, i)

\* the local tree, as paths relative to the local root
RelPaths == {<<>>, <<"a.txt">>, <<"sub">>, <<"sub", "b.txt">>,
             <<"ignored.log">>}

\* remote_base_path.join(strip_path) (line 165)
remote_path(rel) == container_path \o rel

Paths == {current_path(i) : i \in 1..Len(remote_dir_path)}
            \cup {command_txt} \cup {remote_path(r) : r \in RelPaths}

Parent(p) == SubSeq(p, 1, Len(p) - 1)

\* contents a remote file may have
Contents == {"cmd", "dataA", "dataB", "dataI", "stale", "empty"}

IsDir(f, p) == p = <<>> \/ (p \in Paths /\ f[p] = "dir")
IsFile(f, p) == p \in Paths /\ f[p] \in Contents
Exists(f, p) == IsDir(f, p) \/ IsFile(f, p)

----------------------------------------------------------------------------
(* The SFTP server's answers, as the calls in ssh.rs see them *)

\* sftp.stat(path) returns Ok (line 138)
StatOk(f, p) == Exists(f, p)

\* sftp.mkdir(path, 0o755) can succeed (lines 144, 168)
MkdirOk(f, p) == ~Exists(f, p) /\ IsDir(f, Parent(p))

\* CreateOk with no look at the parent directory
CreateOk_NoParent(f, p) == ~IsDir(f, p)

\* sftp.create(path) can succeed (lines 75, 193)
CreateOk(f, p) == ~IsDir(f, p) /\ IsDir(f, Parent(p))

\* Fail with the error dropped: exec returns Ok(()) from where it stands
Fail_Silent == result' = "Ok" /\ pc' = pc

\* `?` on an Err: exec returns the error from where it stands
Fail == result' = "Err" /\ pc' = pc

----------------------------------------------------------------------------
(* The walker *)

\* one item of the walker: an entry (res "ok") with its path relative to
\* the local root, or an error (res "err") (lines 160-166)
Entry(rel, dir, data) ==
    [rel |-> rel, isdir |-> dir, data |-> data, res |-> "ok"]

eRoot == Entry(<<>>, TRUE, "none")
eA    == Entry(<<"a.txt">>, FALSE, "dataA")
eSub  == Entry(<<"sub">>, TRUE, "none")
eB    == Entry(<<"sub", "b.txt">>, FALSE, "dataB")

\* a file the ignore rules match
eIgn  == Entry(<<"ignored.log">>, FALSE, "dataI")

\* an Err item of the walker: an entry it could not read
eErr  == [rel |-> <<>>, isdir |-> FALSE, data |-> "none", res |-> "err"]

\* local trees, in the order the walker visits them: the root first and
\* every directory before its children
LocalTrees ==
    { <<eRoot, eA, eIgn, eSub, eB>>, <<eRoot, eSub, eB, eIgn, eA>>,
      <<eRoot, eIgn, eSub>>, <<eRoot, eIgn>>, <<eRoot, eErr, eA>> }

\* .ignore(true).git_ignore(true) (lines 156-157): the rules match
Ignored(e) == e.rel = <<"ignored.log">>

\* WalkBuilder without its ignore rules
WalkOf_NoIgnore(tree) == tree

\* what WalkBuilder::new(local_path)...build() yields for a tree (lines
\* 155-158): every item but the ignored ones
WalkOf(tree) == SelectSeq(tree, LAMBDA e : ~Ignored(e))

\* the walks of the local trees (lines 155-160)
Walks == { WalkOf(t) : t \in LocalTrees }

----------------------------------------------------------------------------
(* Initial remote file systems *)

FsWith(dirs, files) ==
    [p \in Paths |-> IF p \in dirs THEN "dir"
                     ELSE IF p \in files THEN "stale" ELSE "absent"]

InitFs ==
    { FsWith({}, {}),
      FsWith({current_path(1), current_path(2)}, {}),
      FsWith({current_path(1)}, {current_path(2)}),
      FsWith({current_path(1), current_path(2), current_path(3),
              container_path, remote_path(<<"sub">>)},
             {command_txt, remote_path(<<"a.txt">>)}) }

----------------------------------------------------------------------------
(* Initial state: exec is called with a Config (line 29) *)

\* nothing has been sent, received or printed on the command channel
ChannelIdle ==
    /\ exitCode = NoStatus
    /\ emittedOut = <<>>
    /\ emittedErr = <<>>
    /\ srvSent = {}
    /\ wire = <<>>
    /\ qOut = <<>>
    /\ qErr = <<>>
    /\ remoteEof = FALSE
    /\ remoteClose = FALSE
    /\ chanStatus = 0
    /\ is_data_available = FALSE
    /\ sinkOut = <<>>
    /\ sinkErr = <<>>
    /\ readFailed = FALSE

Init ==
    /\ pc = "connect"
    /\ result = "Running"
    /\ reported = NoStatus
    /\ authKind \in {"Password", "AuthKey", "Agent"}
    /\ authResult = "none"
    /\ identities = -1
    /\ ops = {}
    /\ linkDown = FALSE
    /\ blocking = TRUE
    /\ fs \in InitFs
    /\ mkIdx = 1
    /\ call = 1
    /\ mkdirCount = 0
    /\ extTouched = FALSE
    /\ fsAtCall = fs
    /\ walk \in Walks
    /\ wi = 1
    /\ dirErrs = 0
    /\ srv = "idle"
    /\ cmdRan = FALSE
    /\ ChannelIdle

----------------------------------------------------------------------------
(* Environment: the connection and another actor on the remote side *)

\* the connection is lost; every later remote operation fails
LinkFail ==
    /\ result = "Running"
    /\ pc \notin {"connect"}
    /\ ~linkDown
    /\ linkDown' = TRUE
    /\ UNCHANGED <<pc, result, reported, authVars, ops, blocking, fs, mkVars,
                   walkVars, srvVars, chanVars, loopVars>>

\* another actor creates a directory on the remote file system while the
\* run is working on it (lines 71-81)
ExtMkdir(p) ==
    /\ result = "Running"
    /\ pc \in {"mk_stat", "mk_mkdir", "mk_ok", "create_cmd", "walk"}
    /\ MkdirOk(fs, p)
    /\ fs' = [fs EXCEPT ![p] = "dir"]
    /\ extTouched' = (extTouched \/ pc \in {"mk_stat", "mk_mkdir", "mk_ok"})
    /\ UNCHANGED <<pc, result, reported, authVars, ops, linkDown, blocking,
                   mkIdx, call, mkdirCount, fsAtCall, walkVars, srvVars,
                   chanVars, loopVars>>

\* the directories another actor may create
ExtDirs == {current_path(i) : i \in 1..Len(remote_dir_path)}
             \cup {remote_path(<<"sub">>)}

----------------------------------------------------------------------------
(* exec, lines 30-59: connect, handshake, authenticate, open SFTP *)

\* TcpStream::connect(conf.server_addr)? (line 30)
Connect ==
    /\ pc = "connect" /\ result = "Running"
    /\ \E ok \in BOOLEAN :
         IF ok THEN pc' = "handshake" /\ result' = result ELSE Fail
    /\ UNCHANGED <<reported, authVars, ops, linkDown, blocking, fs, mkVars,
                   walkVars, srvVars, chanVars, loopVars>>

\* Session::new()?, set_tcp_stream, sess.handshake()? (lines 31-33)
Handshake ==
    /\ pc = "handshake" /\ result = "Running"
    /\ \E ok \in BOOLEAN :
         IF ok /\ ~linkDown THEN pc' = "auth" /\ result' = result ELSE Fail
    /\ UNCHANGED <<reported, authVars, ops, linkDown, blocking, fs, mkVars,
                   walkVars, srvVars, chanVars, loopVars>>

\* AuthOutcome with the error of the call dropped instead of returned
AuthOutcome_ErrorDropped(accepted) ==
    /\ authResult' = (IF accepted /\ ~linkDown THEN "ok" ELSE "failed")
    /\ pc' = "sftp" /\ result' = result

\* the outcome of one userauth_* call followed by `?`
AuthOutcome(accepted) ==
    IF accepted /\ ~linkDown
    THEN authResult' = "ok" /\ pc' = "sftp" /\ result' = result
    ELSE authResult' = "failed" /\ Fail

\* Auth::Password: sess.userauth_password(..)? (lines 36-38)
AuthPassword ==
    /\ pc = "auth" /\ result = "Running" /\ authKind = "Password"
    /\ ops' = ops \cup {"userauth_password"}
    /\ \E accepted \in BOOLEAN : AuthOutcome(accepted)
    /\ UNCHANGED <<reported, authKind, identities, linkDown, blocking, fs,
                   mkVars, walkVars, srvVars, chanVars, loopVars>>

\* Auth::AuthKey: sess.userauth_pubkey_file(..)? (lines 39-46)
AuthKeyFile ==
    /\ pc = "auth" /\ result = "Running" /\ authKind = "AuthKey"
    /\ ops' = ops \cup {"userauth_pubkey_file"}
    /\ \E accepted \in BOOLEAN : AuthOutcome(accepted)
    /\ UNCHANGED <<reported, authKind, identities, linkDown, blocking, fs,
                   mkVars, walkVars, srvVars, chanVars, loopVars>>

\* Auth::Agent: sess.agent()?, agent.connect()?, agent.list_identities()?
\* (lines 48-50); the agent is local, the connection plays no part
AgentConnect ==
    /\ pc = "auth" /\ result = "Running" /\ authKind = "Agent"
    /\ \E ok \in BOOLEAN :
         IF ok THEN pc' = "agent_identities" /\ result' = result
                    /\ authResult' = authResult
               ELSE authResult' = "failed" /\ Fail
    /\ UNCHANGED <<reported, authKind, identities, ops, linkDown, blocking,
                   fs, mkVars, walkVars, srvVars, chanVars, loopVars>>

\* NoIdentities with the check of the list left out
NoIdentities_Unchecked(n) == FALSE

\* identities.len() == 0 (line 52)
NoIdentities(n) == n = 0

\* let identities = agent.identities()?; the check of lines 52-54
AgentIdentities ==
    /\ pc = "agent_identities" /\ result = "Running"
    /\ \E n \in 0..MaxIdent :
         /\ identities' = n
         /\ IF NoIdentities(n)
            THEN authResult' = "failed" /\ Fail
            ELSE pc' = "agent_auth" /\ result' = result
                 /\ authResult' = authResult
    /\ UNCHANGED <<reported, authKind, ops, linkDown, blocking, fs, mkVars,
                   walkVars, srvVars, chanVars, loopVars>>

\* sess.userauth_agent(conf.username.as_str())? (line 55)
AgentAuth ==
    /\ pc = "agent_auth" /\ result = "Running"
    /\ ops' = ops \cup {"userauth_agent"}
    /\ \E accepted \in BOOLEAN : AuthOutcome(accepted)
    /\ UNCHANGED <<reported, authKind, identities, linkDown, blocking, fs,
                   mkVars, walkVars, srvVars, chanVars, loopVars>>

\* let sftp = sess.sftp()? (line 59); then sftp_mkdir_recursive is entered
\* with an empty current_path (lines 71, 135)
SftpInit ==
    /\ pc = "sftp" /\ result = "Running"
    /\ ops' = ops \cup {"sftp_init"}
    /\ IF linkDown
       THEN Fail /\ UNCHANGED mkVars
       ELSE /\ pc' = "mk_stat" /\ result' = result
            /\ mkIdx' = 1 /\ mkdirCount' = 0 /\ extTouched' = FALSE
            /\ fsAtCall' = fs /\ call' = call
    /\ UNCHANGED <<reported, authVars, linkDown, blocking, fs, walkVars,
                   srvVars, chanVars, loopVars>>

----------------------------------------------------------------------------
(* sftp_mkdir_recursive, lines 134-147 *)

\* the loop moves to the next component, or the function returns Ok(())
\* after the last one (lines 136, 140, 146)
MkAdvance ==
    IF mkIdx = Len(remote_dir_path)
    THEN pc' = "mk_ok" /\ mkIdx' = mkIdx
    ELSE pc' = "mk_stat" /\ mkIdx' = mkIdx + 1

\* StatBranch without the `continue` for a directory that exists
StatBranch_FallThrough(f, p, down) ==
    IF ~down /\ StatOk(f, p) /\ IsDir(f, p) THEN "next" ELSE "mkdir"

StatBranch_NoContinue(f, p, down) ==
    IF ~down /\ StatOk(f, p) /\ ~IsDir(f, p) THEN "err" ELSE "mkdir"

\* what lines 138-143 do with the answer of sftp.stat(current_path):
\* "next" (continue), "err" (not a directory) or "mkdir" (fall to line 144)
StatBranch(f, p, down) ==
    IF ~down /\ StatOk(f, p)
    THEN IF IsDir(f, p) THEN "next" ELSE "err"
    ELSE "mkdir"

\* current_path.push(component); if let Ok(metadata) = sftp.stat(..)
\* (lines 137-143)
MkStat ==
    /\ pc = "mk_stat" /\ result = "Running"
    /\ ops' = ops \cup {"stat"}
    /\ LET b == StatBranch(fs, current_path(mkIdx), linkDown) IN
         CASE b = "next"  -> MkAdvance
           [] b = "err"   -> pc' = "mk_err" /\ mkIdx' = mkIdx
           [] b = "mkdir" -> pc' = "mk_mkdir" /\ mkIdx' = mkIdx
    /\ UNCHANGED <<result, reported, authVars, linkDown, blocking, fs, call,
                   mkdirCount, extTouched, fsAtCall, walkVars, srvVars,
                   chanVars, loopVars>>

\* sftp.mkdir(current_path.as_path(), 0o755)? (line 144)
MkMkdir ==
    /\ pc = "mk_mkdir" /\ result = "Running"
    /\ ops' = ops \cup {"mkdir"}
    /\ mkdirCount' = mkdirCount + 1
    /\ \E refused \in BOOLEAN :
         IF ~linkDown /\ ~refused /\ MkdirOk(fs, current_path(mkIdx))
         THEN fs' = [fs EXCEPT ![current_path(mkIdx)] = "dir"] /\ MkAdvance
         ELSE fs' = fs /\ pc' = "mk_err" /\ mkIdx' = mkIdx
    /\ UNCHANGED <<result, reported, authVars, linkDown, blocking, call,
                   extTouched, fsAtCall, walkVars, srvVars, chanVars,
                   loopVars>>

----------------------------------------------------------------------------
(* exec, lines 71-81: provision the workspace, then mirror *)

\* sftp_mkdir_recursive(&sftp, remote_dir_path)? returned Ok (lines 71-72)
ProvisionOk ==
    /\ pc = "mk_ok" /\ result = "Running"
    /\ pc' = "create_cmd"
    /\ mkdirCount' = 0 /\ extTouched' = FALSE
    /\ UNCHANGED <<result, reported, authVars, ops, linkDown, blocking, fs,
                   mkIdx, call, fsAtCall, walkVars, srvVars, chanVars,
                   loopVars>>

\* ProvisionErr with the error dropped: exec goes on to command.txt
ProvisionErr_Dropped ==
    /\ pc = "mk_err" /\ result = "Running"
    /\ pc' = "create_cmd"
    /\ UNCHANGED <<result, reported, authVars, ops, linkDown, blocking, fs,
                   mkVars, walkVars, srvVars, chanVars, loopVars>>

\* sftp_mkdir_recursive(&sftp, remote_dir_path)? returned Err (line 71)
ProvisionErr ==
    /\ pc = "mk_err" /\ result = "Running"
    /\ Fail
    /\ UNCHANGED <<reported, authVars, ops, linkDown, blocking, fs, mkVars,
                   walkVars, srvVars, chanVars, loopVars>>

\* sftp.create(path)? then write_all(bytes)? of one remote file
\* (lines 75-76 and 193-194): "nocreate", "nowrite" or "ok"
RemoteWriteOutcomes(f, p, down) ==
    IF down \/ ~CreateOk(f, p) THEN {"nocreate"} ELSE {"nowrite", "ok"}

\* the remote file system after that create and write
RemoteWriteFs(f, p, data, outcome) ==
    CASE outcome = "nocreate" -> f
      [] outcome = "nowrite"  -> [f EXCEPT ![p] = "empty"]
      [] outcome = "ok"       -> [f EXCEPT ![p] = data]

\* command.txt (lines 75-77); upload_dir is entered next (line 81)
CreateCommandTxt ==
    /\ pc = "create_cmd" /\ result = "Running"
    /\ \E o \in RemoteWriteOutcomes(fs, command_txt, linkDown) :
         /\ fs' = RemoteWriteFs(fs, command_txt, "cmd", o)
         /\ ops' = ops \cup (IF o = "nocreate" THEN {"create"}
                                               ELSE {"create", "write"})
         /\ IF o = "ok" THEN pc' = "walk" /\ result' = result ELSE Fail
    /\ wi' = 1 /\ dirErrs' = 0 /\ walk' = walk
    /\ UNCHANGED <<reported, authVars, linkDown, blocking, mkVars, srvVars,
                   chanVars, loopVars>>

----------------------------------------------------------------------------
(* upload_dir and upload_file, lines 150-198 *)

\* MkdirEntryNext with the error of mkdir returned by `?`
MkdirEntryNext_Abort(ok) ==
    IF ok
    THEN wi' = wi + 1 /\ dirErrs' = dirErrs /\ pc' = pc /\ result' = result
    ELSE wi' = wi /\ dirErrs' = dirErrs + 1 /\ Fail

\* match sftp.mkdir(&remote_path, 0o755): Ok prints, Err prints and goes
\* on (lines 166-173): the next entry is taken in both cases
MkdirEntryNext(ok) ==
    /\ wi' = wi + 1
    /\ dirErrs' = IF ok THEN dirErrs ELSE dirErrs + 1
    /\ pc' = pc /\ result' = result

\* if let Ok(entry) = result (line 161): an Err item of the walker is
\* passed over without a word
UploadSkipEntry ==
    /\ pc = "walk" /\ result = "Running"
    /\ wi <= Len(walk) /\ walk[wi].res # "ok"
    /\ wi' = wi + 1
    /\ UNCHANGED <<pc, result, reported, authVars, ops, linkDown, blocking,
                   fs, mkVars, walk, dirErrs, srvVars, chanVars, loopVars>>

\* a directory entry of the walk (lines 160-173)
UploadDirEntry ==
    /\ pc = "walk" /\ result = "Running"
    /\ wi <= Len(walk) /\ walk[wi].res = "ok" /\ walk[wi].isdir
    /\ ops' = ops \cup {"mkdir"}
    /\ \E refused \in BOOLEAN :
         LET p  == remote_path(walk[wi].rel)
             ok == ~linkDown /\ ~refused /\ MkdirOk(fs, p)
         IN /\ fs' = IF ok THEN [fs EXCEPT ![p] = "dir"] ELSE fs
            /\ MkdirEntryNext(ok)
    /\ walk' = walk
    /\ UNCHANGED <<reported, authVars, linkDown, blocking, mkVars, srvVars,
                   chanVars, loopVars>>

\* FileEntryNext with the error of upload_file logged and passed over
FileEntryNext_Swallowed(ok) ==
    wi' = wi + 1 /\ pc' = pc /\ result' = result

\* upload_file(sftp, path, &remote_path)? (line 175): Ok takes the next
\* entry, Err is returned by upload_dir and then by exec (line 81)
FileEntryNext(ok) ==
    IF ok THEN wi' = wi + 1 /\ pc' = pc /\ result' = result
          ELSE wi' = wi /\ Fail

\* a file entry of the walk: upload_file(sftp, path, &remote_path)?
\* (lines 174-176, 184-198)
UploadFileEntry ==
    /\ pc = "walk" /\ result = "Running"
    /\ wi <= Len(walk) /\ walk[wi].res = "ok" /\ ~walk[wi].isdir
    /\ \E localOk \in BOOLEAN :
         IF ~localOk
         THEN FileEntryNext(FALSE) /\ UNCHANGED <<fs, ops>>
         ELSE \E o \in RemoteWriteOutcomes(fs, remote_path(walk[wi].rel),
                                           linkDown) :
                /\ fs' = RemoteWriteFs(fs, remote_path(walk[wi].rel),
                                       walk[wi].data, o)
                /\ ops' = ops \cup (IF o = "nocreate" THEN {"create"}
                                                      ELSE {"create", "write"})
                /\ FileEntryNext(o = "ok")
    /\ UNCHANGED <<reported, authVars, linkDown, blocking, mkVars, walk,
                   dirErrs, srvVars, chanVars, loopVars>>

\* the walker is exhausted: upload_dir returns Ok(()) (line 181)
MirrorDone ==
    /\ pc = "walk" /\ result = "Running"
    /\ wi = Len(walk) + 1
    /\ pc' = "channel_session"
    /\ UNCHANGED <<result, reported, authVars, ops, linkDown, blocking, fs,
                   mkVars, walkVars, srvVars, chanVars, loopVars>>

----------------------------------------------------------------------------
(* The remote side of the command channel *)

Min(a, b) == IF a < b THEN a ELSE b

DataPkt(s, b) == [t |-> "data", s |-> s, b |-> b, code |-> NoStatus]
CtlPkt(t, code) == [t |-> t, s |-> "none", b |-> "none", code |-> code]

\* the remote command writes one byte to a stream; when the shell's cd
\* failed only the shell itself writes, to standard error (line 85)
RemoteEmit(s, b, max) ==
    /\ result = "Running" /\ ~linkDown
    /\ srv = "running"
    /\ cmdRan \/ s = "err"
    /\ Len(emittedOut) + Len(emittedErr) < max
    /\ emittedOut' = IF s = "out" THEN Append(emittedOut, b) ELSE emittedOut
    /\ emittedErr' = IF s = "err" THEN Append(emittedErr, b) ELSE emittedErr
    /\ wire' = Append(wire, DataPkt(s, b))
    /\ UNCHANGED <<pc, result, reported, authVars, ops, linkDown, blocking,
                   fs, mkVars, walkVars, srv, cmdRan, exitCode, srvSent,
                   chanVars, loopVars>>

\* "cd <remote_dir>/container && <command>" (line 85): the exit codes the
\* shell can end with
ShellExitCodes(ran) == IF ran THEN ExitCodes ELSE {CdFailCode}

\* the remote command exits
RemoteExit ==
    /\ result = "Running" /\ ~linkDown
    /\ srv = "running"
    /\ \E c \in ShellExitCodes(cmdRan) : exitCode' = c
    /\ srv' = "exited"
    /\ UNCHANGED <<pc, result, reported, authVars, ops, linkDown, blocking,
                   fs, mkVars, walkVars, cmdRan, emittedOut, emittedErr,
                   srvSent, wire, chanVars, loopVars>>

\* the server sends end-of-stream or the exit status, in either order,
\* after the command has exited and all its output has been sent
ServerSend(t) ==
    /\ result = "Running" /\ ~linkDown
    /\ srv = "exited"
    /\ t \in {"eof", "status"} /\ t \notin srvSent
    /\ srvSent' = srvSent \cup {t}
    /\ wire' = Append(wire, CtlPkt(t, IF t = "status" THEN exitCode
                                                       ELSE NoStatus))
    /\ UNCHANGED <<pc, result, reported, authVars, ops, linkDown, blocking,
                   fs, mkVars, walkVars, srv, cmdRan, exitCode, emittedOut,
                   emittedErr, chanVars, loopVars>>

\* the server closes the channel, last of all
ServerClose ==
    /\ result = "Running" /\ ~linkDown
    /\ srvSent = {"eof", "status"}
    /\ srvSent' = srvSent \cup {"close"}
    /\ wire' = Append(wire, CtlPkt("close", NoStatus))
    /\ UNCHANGED <<pc, result, reported, authVars, ops, linkDown, blocking,
                   fs, mkVars, walkVars, srv, cmdRan, exitCode, emittedOut,
                   emittedErr, chanVars, loopVars>>

----------------------------------------------------------------------------
(* libssh2 as seen through the calls of lines 93-129 *)

\* the bytes of stream s among the packets w
DataOf(w, s) ==
    LET sel == SelectSeq(w, LAMBDA p : p.t = "data" /\ p.s = s)
    IN  [i \in 1..Len(sel) |-> sel[i].b]

HasPkt(w, t) == \E i \in 1..Len(w) : w[i].t = t

StatusOf(w, cur) ==
    IF HasPkt(w, "status")
    THEN w[CHOOSE i \in 1..Len(w) : w[i].t = "status"].code
    ELSE cur

\* the transport reads every packet that has arrived and files it under
\* the channel (inside channel.read, stderr().read and wait_close)
Pumped ==
    [out    |-> qOut \o DataOf(wire, "out"),
     err    |-> qErr \o DataOf(wire, "err"),
     eof    |-> remoteEof \/ HasPkt(wire, "eof"),
     close  |-> remoteClose \/ HasPkt(wire, "close"),
     status |-> StatusOf(wire, chanStatus)]

\* channel.eof() (line 93): the remote end-of-stream has been received and
\* no received data of the channel is still unread
ChannelEof(eofFlag, out, err) == eofFlag /\ out = <<>> /\ err = <<>>

\* String::from_utf8_lossy (lines 103, 114) over the three byte classes:
\* "a" decodes to itself, "L" followed by "C" to the character "e'", and a
\* lead byte without its continuation or a stray continuation byte to the
\* replacement character "?"
RECURSIVE from_utf8_lossy(_)
from_utf8_lossy(bs) ==
    IF bs = <<>> THEN <<>>
    ELSE IF bs[1] = "a" THEN <<"a">> \o from_utf8_lossy(Tail(bs))
    ELSE IF bs[1] = "L" /\ Len(bs) >= 2 /\ bs[2] = "C"
         THEN <<"e'">> \o from_utf8_lossy(Tail(Tail(bs)))
    ELSE <<"?">> \o from_utf8_lossy(Tail(bs))

----------------------------------------------------------------------------
(* exec, lines 83-131: run the command and drain its output *)

\* let mut channel = sess.channel_session()? (line 83)
ChannelSession ==
    /\ pc = "channel_session" /\ result = "Running"
    /\ ops' = ops \cup {"channel_session"}
    /\ IF linkDown THEN Fail ELSE pc' = "channel_exec" /\ result' = result
    /\ UNCHANGED <<reported, authVars, linkDown, blocking, fs, mkVars,
                   walkVars, srvVars, chanVars, loopVars>>

\* sess.set_blocking(false) (line 89): the mode the session is left in
BlockingAfterExec == FALSE

\* channel.exec(&command)? and sess.set_blocking(false) (lines 85-89); the
\* remote shell runs "cd <remote_dir>/container" and, if that worked, the
\* command
ChannelExec ==
    /\ pc = "channel_exec" /\ result = "Running"
    /\ ops' = ops \cup {"channel_exec"}
    /\ IF linkDown
       THEN Fail /\ UNCHANGED <<srv, cmdRan, blocking>>
       ELSE /\ srv' = "running"
            /\ cmdRan' = IsDir(fs, container_path)
            /\ blocking' = BlockingAfterExec
            /\ pc' = "loop_eof" /\ result' = result
    /\ UNCHANGED <<reported, authVars, linkDown, fs, mkVars, walkVars,
                   exitCode, emittedOut, emittedErr, srvSent, wire, chanVars,
                   loopVars>>

\* if channel.eof() { break; } and let mut is_data_available = false
\* (lines 92-98)
LoopEof ==
    /\ pc = "loop_eof" /\ result = "Running"
    /\ IF ChannelEof(remoteEof, qOut, qErr)
       THEN pc' = "wait_close" /\ is_data_available' = is_data_available
       ELSE pc' = "read_out" /\ is_data_available' = FALSE
    /\ UNCHANGED <<result, reported, authVars, ops, linkDown, blocking, fs,
                   mkVars, walkVars, srvVars, chanVars, sinkOut, sinkErr,
                   readFailed>>

\* the bytes one read(&mut buffer) takes from the unread bytes q (line 91)
ReadChunk(q) == SubSeq(q, 1, Min(Len(q), BufSize))

\* the unread bytes left after that read
ReadRest(q) == SubSeq(q, Min(Len(q), BufSize) + 1, Len(q))

\* AfterStdout with a read that yields nothing restarting the loop
AfterStdout_Skip(avail) == IF avail THEN "read_err" ELSE "loop_eof"

\* where the iteration goes after the read of standard output, whether or
\* not it produced bytes (lines 101-112)
AfterStdout(avail) == "read_err"

\* ReadError with the error taken for a would-block: the loop goes on
ReadError_Ignored(next) == readFailed' = TRUE /\ pc' = next /\ result' = result

\* Err(e) => return Err(e.into()) for an error that is not WouldBlock
\* (lines 108, 119)
ReadError(next) == readFailed' = TRUE /\ Fail

\* match channel.read(&mut buffer) (lines 101-109)
ReadStdout ==
    /\ pc = "read_out" /\ result = "Running"
    /\ IF ChannelEof(remoteEof, qOut, qErr)
       THEN /\ pc' = AfterStdout(is_data_available) /\ result' = result
            /\ UNCHANGED <<wire, chanVars, loopVars>>
       ELSE IF linkDown
       THEN /\ ReadError(AfterStdout(is_data_available))
            /\ UNCHANGED <<wire, chanVars, is_data_available, sinkOut,
                           sinkErr>>
       ELSE /\ wire' = <<>>
            /\ qOut' = ReadRest(Pumped.out)
            /\ qErr' = Pumped.err
            /\ remoteEof' = Pumped.eof
            /\ remoteClose' = Pumped.close
            /\ chanStatus' = Pumped.status
            /\ sinkOut' = sinkOut \o from_utf8_lossy(ReadChunk(Pumped.out))
            /\ is_data_available' =
                 (is_data_available \/ ReadChunk(Pumped.out) # <<>>)
            /\ pc' = AfterStdout(is_data_available') /\ result' = result
            /\ UNCHANGED <<sinkErr, readFailed>>
    /\ UNCHANGED <<reported, authVars, ops, linkDown, blocking, fs, mkVars,
                   walkVars, srv, cmdRan, exitCode, emittedOut, emittedErr,
                   srvSent>>

\* if !is_data_available { sleep } (lines 122-125): where the iteration
\* goes after the second read
AfterReads(avail) == IF avail THEN "loop_eof" ELSE "sleep"

\* match channel.stderr().read(&mut buffer) (lines 112-120)
ReadStderr ==
    /\ pc = "read_err" /\ result = "Running"
    /\ IF ChannelEof(remoteEof, qOut, qErr)
       THEN /\ pc' = AfterReads(is_data_available) /\ result' = result
            /\ UNCHANGED <<wire, chanVars, loopVars>>
       ELSE IF linkDown
       THEN /\ ReadError(AfterReads(is_data_available))
            /\ UNCHANGED <<wire, chanVars, is_data_available, sinkOut,
                           sinkErr>>
       ELSE /\ wire' = <<>>
            /\ qOut' = Pumped.out
            /\ qErr' = ReadRest(Pumped.err)
            /\ remoteEof' = Pumped.eof
            /\ remoteClose' = Pumped.close
            /\ chanStatus' = Pumped.status
            /\ sinkErr' = sinkErr \o from_utf8_lossy(ReadChunk(Pumped.err))
            /\ is_data_available' =
                 (is_data_available \/ ReadChunk(Pumped.err) # <<>>)
            /\ pc' = AfterReads(is_data_available') /\ result' = result
            /\ UNCHANGED <<sinkOut, readFailed>>
    /\ UNCHANGED <<reported, authVars, ops, linkDown, blocking, fs, mkVars,
                   walkVars, srv, cmdRan, exitCode, emittedOut, emittedErr,
                   srvSent>>

\* std::thread::sleep(Duration::from_millis(100)) (line 124)
Sleep ==
    /\ pc = "sleep" /\ result = "Running"
    /\ pc' = "loop_eof"
    /\ UNCHANGED <<result, reported, authVars, ops, linkDown, blocking, fs,
                   mkVars, walkVars, srvVars, chanVars, loopVars>>

\* channel.wait_close()? (line 128): libssh2 reads packets until the close
\* arrives; when none is left to read, a blocking session waits and a
\* non-blocking one returns the would-block error
WaitClose ==
    /\ pc = "wait_close" /\ result = "Running"
    /\ blocking => (linkDown \/ Pumped.close)
    /\ ops' = ops \cup {"wait_close"}
    /\ IF ~remoteClose /\ linkDown
       THEN Fail /\ UNCHANGED <<wire, chanVars>>
       ELSE /\ wire' = <<>>
            /\ qOut' = Pumped.out
            /\ qErr' = Pumped.err
            /\ remoteEof' = Pumped.eof
            /\ remoteClose' = Pumped.close
            /\ chanStatus' = Pumped.status
            /\ IF Pumped.close
               THEN pc' = "exit_status" /\ result' = result
               ELSE Fail
    /\ UNCHANGED <<reported, authVars, linkDown, blocking, fs, mkVars,
                   walkVars, srv, cmdRan, exitCode, emittedOut, emittedErr,
                   srvSent, loopVars>>

\* println!("\nExit status: {}", channel.exit_status()?); Ok(())
\* (lines 129-131)
ExitStatus ==
    /\ pc = "exit_status" /\ result = "Running"
    /\ ops' = ops \cup {"exit_status"}
    /\ reported' = chanStatus
    /\ result' = "Ok"
    /\ pc' = "done"
    /\ UNCHANGED <<authVars, linkDown, blocking, fs, mkVars, walkVars,
                   srvVars, chanVars, loopVars>>

----------------------------------------------------------------------------
(* The run of exec *)

Next ==
    \/ LinkFail
    \/ \E p \in ExtDirs : ExtMkdir(p)
    \/ Connect
    \/ Handshake
    \/ AuthPassword
    \/ AuthKeyFile
    \/ AgentConnect
    \/ AgentIdentities
    \/ AgentAuth
    \/ SftpInit
    \/ MkStat
    \/ MkMkdir
    \/ ProvisionOk
    \/ ProvisionErr
    \/ CreateCommandTxt
    \/ UploadSkipEntry
    \/ UploadDirEntry
    \/ UploadFileEntry
    \/ MirrorDone
    \/ ChannelSession
    \/ ChannelExec
    \/ \E s \in {"out", "err"} : RemoteEmit(s, "a", MaxOutRun)
    \/ RemoteExit
    \/ \E t \in {"eof", "status"} : ServerSend(t)
    \/ ServerClose
    \/ LoopEof
    \/ ReadStdout
    \/ ReadStderr
    \/ Sleep
    \/ WaitClose
    \/ ExitStatus

Spec == Init /\ [][Next]_vars

----------------------------------------------------------------------------
(* The drain loop on its own: exec from line 91 on, after authentication,  *)
(* provisioning, the mirror and channel.exec have succeeded                *)

\* the remote file system after provisioning and mirroring the walk w onto
\* an empty remote side; without the container when its mkdir was refused
FsAfterMirror(w, refused) ==
    [p \in Paths |->
       IF p \in {current_path(i) : i \in 1..Len(remote_dir_path)} THEN "dir"
       ELSE IF p = command_txt THEN "cmd"
       ELSE IF refused THEN "absent"
       ELSE IF \E i \in 1..Len(w) : remote_path(w[i].rel) = p
            THEN LET e == w[CHOOSE i \in 1..Len(w) : remote_path(w[i].rel) = p]
                 IN  IF e.isdir THEN "dir" ELSE e.data
       ELSE "absent"]

\* the operations a run has performed when it enters the loop
OpsBeforeLoop ==
    {"userauth_password", "sftp_init", "stat", "mkdir", "create", "write",
     "channel_session", "channel_exec"}

\* the state in which line 91 is reached: a password run on an empty
\* remote side, either with the whole tree mirrored or with an empty
\* project whose container directory the server refused to create
DrainInit ==
    /\ pc = "loop_eof"
    /\ result = "Running"
    /\ reported = NoStatus
    /\ authKind = "Password"
    /\ authResult = "ok"
    /\ identities = -1
    /\ ops = OpsBeforeLoop
    /\ linkDown = FALSE
    /\ blocking = BlockingAfterExec
    /\ \E refused \in BOOLEAN :
         /\ walk = (IF refused THEN <<eRoot>> ELSE <<eRoot, eA, eSub, eB>>)
         /\ fs = FsAfterMirror(walk, refused)
         /\ dirErrs = (IF refused THEN 1 ELSE 0)
         /\ cmdRan = ~refused
    /\ mkIdx = Len(remote_dir_path)
    /\ call = 1
    /\ mkdirCount = 0
    /\ extTouched = FALSE
    /\ fsAtCall = FsWith({}, {})
    /\ wi = Len(walk) + 1
    /\ srv = "running"
    /\ ChannelIdle

DrainNext ==
    \/ LinkFail
    \/ \E s \in {"out", "err"}, b \in Bytes : RemoteEmit(s, b, MaxOut)
    \/ RemoteExit
    \/ \E t \in {"eof", "status"} : ServerSend(t)
    \/ ServerClose
    \/ LoopEof
    \/ ReadStdout
    \/ ReadStderr
    \/ Sleep
    \/ WaitClose
    \/ ExitStatus

DrainSpec == DrainInit /\ [][DrainNext]_vars

----------------------------------------------------------------------------
(* The drain loop under fair scheduling: exec is one sequential flow that  *)
(* keeps running, so its next step is always eventually taken              *)

\* most bytes the remote command writes when progress is examined
MaxOutLive == 3

\* the steps of exec in and after the loop (lines 92-131)
LoopStep ==
    LoopEof \/ ReadStdout \/ ReadStderr \/ Sleep \/ WaitClose \/ ExitStatus

FairDrainNext ==
    \/ LinkFail
    \/ \E s \in {"out", "err"} : RemoteEmit(s, "a", MaxOutLive)
    \/ RemoteExit
    \/ \E t \in {"eof", "status"} : ServerSend(t)
    \/ ServerClose
    \/ LoopStep

FairDrainSpec == DrainInit /\ [][FairDrainNext]_vars /\ WF_vars(LoopStep)

----------------------------------------------------------------------------
(* sftp_mkdir_recursive on its own, called again after it has succeeded,   *)
(* against a remote file system another actor also creates directories in  *)

\* most calls of sftp_mkdir_recursive on the same path
MaxCalls == 2

\* the file systems a call may find: every component of the path absent, a
\* directory or a file, nothing existing below something that is not a
\* directory
MkInitFs ==
    { FsWith({}, {}),
      FsWith({}, {current_path(1)}),
      FsWith({current_path(1)}, {}),
      FsWith({current_path(1)}, {current_path(2)}),
      FsWith({current_path(1), current_path(2)}, {}),
      FsWith({current_path(1), current_path(2)}, {current_path(3)}),
      FsWith({current_path(1), current_path(2), current_path(3)}, {}) }

MkdirInit ==
    /\ pc = "mk_stat"
    /\ result = "Running"
    /\ reported = NoStatus
    /\ authKind = "Password"
    /\ authResult = "ok"
    /\ identities = -1
    /\ ops = {"userauth_password", "sftp_init"}
    /\ linkDown = FALSE
    /\ blocking = TRUE
    /\ fs \in MkInitFs
    /\ mkIdx = 1
    /\ call = 1
    /\ mkdirCount = 0
    /\ extTouched = FALSE
    /\ fsAtCall = fs
    /\ walk = <<eRoot>>
    /\ wi = 1
    /\ dirErrs = 0
    /\ srv = "idle"
    /\ cmdRan = FALSE
    /\ ChannelIdle

\* sftp_mkdir_recursive is called again on the same path (lines 134-135)
CallAgain ==
    /\ pc = "mk_ok" /\ result = "Running"
    /\ call < MaxCalls
    /\ call' = call + 1
    /\ pc' = "mk_stat"
    /\ mkIdx' = 1
    /\ mkdirCount' = 0
    /\ extTouched' = FALSE
    /\ fsAtCall' = fs
    /\ UNCHANGED <<result, reported, authVars, ops, linkDown, blocking, fs,
                   walkVars, srvVars, chanVars, loopVars>>

\* another actor on the server creates a file at a component of the path
\* while sftp_mkdir_recursive is between two of its requests (lines 137-144)
ExtCreate(p) ==
    /\ pc \in {"mk_stat", "mk_mkdir"} /\ result = "Running"
    /\ CreateOk(fs, p) /\ ~Exists(fs, p)
    /\ fs' = [fs EXCEPT ![p] = "stale"]
    /\ extTouched' = TRUE
    /\ UNCHANGED <<pc, result, reported, authVars, ops, linkDown, blocking,
                   mkIdx, call, mkdirCount, fsAtCall, walkVars, srvVars,
                   chanVars, loopVars>>

MkdirNext ==
    \/ MkStat
    \/ MkMkdir
    \/ CallAgain
    \/ \E p \in ExtDirs : ExtMkdir(p)
    \/ \E i \in 1..Len(remote_dir_path) : ExtCreate(current_path(i))

MkdirSpec == MkdirInit /\ [][MkdirNext]_vars

----------------------------------------------------------------------------
(* Properties *)

\* the remote file-system operations of provisioning and mirroring
SftpOps == {"sftp_init", "stat", "mkdir", "create", "write"}

\* C1: when the authentication step of any of the three variants fails,
\* exec returns an error and no remote file-system operation has been
\* performed: the remote file system is as it was, no workspace exists
\* that was not there before.
C1_AuthFailureNoWorkspace ==
    authResult = "failed" =>
        /\ result = "Err"
        /\ ops \cap SftpOps = {}
        /\ fs = fsAtCall

\* C1 witness: the server rejected the agent's identities and exec
\* returned the error.
C1_Witness ==
    /\ authKind = "Agent" /\ identities >= 1
    /\ "userauth_agent" \in ops
    /\ authResult = "failed" /\ result = "Err"

\* C2: an agent that lists zero identities makes exec fail without
\* userauth_agent ever being invoked; userauth_agent is invoked only after
\* at least one identity was listed.
C2_NoIdentitiesFailsFast ==
    /\ identities = 0 => (result = "Err" /\ "userauth_agent" \notin ops)
    /\ "userauth_agent" \in ops => identities >= 1

\* C2 witness: the agent listed nothing and exec returned the error.
C2_Witness ==
    /\ authKind = "Agent" /\ identities = 0
    /\ authResult = "failed" /\ result = "Err"

\* the loop has been left through the break of line 95
LeftDraining == pc \in {"wait_close", "exit_status", "done"}

\* C3: when the loop has left Draining, what was printed on each sink is
\* the bytes the command wrote to the matching stream, in order, nothing
\* lost, duplicated or crossed over: each sink shows the permissive
\* decoding of its whole stream.
C3_DrainComplete ==
    LeftDraining =>
        /\ sinkOut = from_utf8_lossy(emittedOut)
        /\ sinkErr = from_utf8_lossy(emittedErr)

\* Leaving the loop on channel.eof() leaves no byte unread: nothing of
\* either stream is still queued or in flight.
DrainLeavesNothingUnread ==
    LeftDraining =>
        /\ qOut = <<>> /\ qErr = <<>>
        /\ DataOf(wire, "out") = <<>> /\ DataOf(wire, "err") = <<>>

\* C4: after end-of-stream the run waits for the close and only then
\* reads the exit status; the wait blocks, so that while the connection
\* holds it never ends the run with an error; the status reported is the
\* command's exit code.
C4_BlockingWaitThenStatus ==
    /\ "wait_close" \in ops => remoteEof
    /\ "exit_status" \in ops => ("wait_close" \in ops /\ remoteClose)
    /\ (pc = "wait_close" /\ result = "Err") => linkDown
    /\ reported # NoStatus => reported = exitCode

\* C5: when the command exits, end-of-stream arrives and no read fails,
\* the loop ends and an exit status is reported: a run that has entered
\* the loop ends without a status only when a read failed or the
\* connection was lost.
C5_StatusEventuallyReported ==
    (result = "Err" /\ "channel_exec" \in ops /\ pc # "channel_exec") =>
        (readFailed \/ linkDown)

\* bytes of a stream that have arrived and are not yet printed
PendingOut == qOut \o DataOf(wire, "out")
PendingErr == qErr \o DataOf(wire, "err")

\* C6: every iteration polls both streams: a read of standard output that
\* yields nothing goes on to the read of standard error, and the unread
\* bytes of either stream are printed by that stream's read of the
\* iteration, whatever the other stream holds; so every byte pending on a
\* stream is eventually printed, unless the connection is lost.
C6_NonStarvation ==
    /\ [][ /\ (pc = "read_out" /\ pc' # "read_out") => pc' = "read_err"
           /\ (pc = "read_out" /\ pc' # "read_out" /\ PendingOut # <<>>) =>
                (Len(sinkOut') > Len(sinkOut)
                   /\ Len(qOut') < Len(PendingOut))
           /\ (pc = "read_err" /\ pc' # "read_err" /\ PendingErr # <<>>) =>
                (Len(sinkErr') > Len(sinkErr)
                   /\ Len(qErr') < Len(PendingErr)) ]_vars
    /\ (PendingErr # <<>>) ~> (PendingErr = <<>> \/ linkDown)
    /\ (PendingOut # <<>>) ~> (PendingOut = <<>> \/ linkDown)

\* C6 witness: standard output has produced nothing at all, standard
\* error bytes have been printed and more are waiting in the next
\* iteration.
C6_Witness ==
    /\ emittedOut = <<>> /\ sinkOut = <<>>
    /\ sinkErr # <<>>
    /\ qErr # <<>>
    /\ pc = "read_out"

\* C7: a command that ends with a non-zero exit status, the failed cd
\* included, makes the run report that status and return Ok, while the
\* connection holds.
C7_NonZeroExitReported ==
    (result # "Running" /\ exitCode \notin {NoStatus, 0} /\ ~linkDown) =>
        (result = "Ok" /\ reported = exitCode)

\* C8: a call of sftp_mkdir_recursive that follows a successful one on the
\* same path, with nobody else changing the remote file system, succeeds,
\* issues no mkdir and leaves the file system as it found it.
C8_MkdirIdempotent ==
    (call >= 2 /\ ~extTouched) =>
        /\ pc \notin {"mk_mkdir", "mk_err"}
        /\ mkdirCount = 0
        /\ fs = fsAtCall

\* C8 witness: the second call has returned Ok on an untouched file
\* system, after a first call that had to create directories.
C8_Witness ==
    /\ call = 2 /\ pc = "mk_ok" /\ ~extTouched
    /\ "mkdir" \in ops

\* C9: sftp_mkdir_recursive never fails at a component that is a
\* directory, whenever another actor created it.
C9_ToleratesConcurrentCreation ==
    pc = "mk_err" => ~IsDir(fs, current_path(mkIdx))

\* a file entry among the items of the walker
IsFileEntry(e) == e.res = "ok" /\ ~e.isdir

\* upload_dir has returned Ok
MirrorCompleted ==
    pc \notin {"connect", "handshake", "auth", "agent_identities",
               "agent_auth", "sftp", "mk_stat", "mk_mkdir", "mk_ok",
               "mk_err", "create_cmd", "walk"}

\* C10: a directory-creation error of the mirror is logged and the next
\* entry is taken; the mirror aborts at file entries only; and when it has
\* completed, every file the walker yielded is on the remote side with its
\* contents, also below directories that existed before.
C10_MirrorSurvivesMkdirFailure ==
    /\ [][dirErrs' > dirErrs =>
            (result' = "Running" /\ pc' = "walk" /\ wi' = wi + 1)]_vars
    /\ []((pc = "walk" /\ result = "Err") =>
            (wi <= Len(walk) /\ IsFileEntry(walk[wi])))
    /\ [](MirrorCompleted =>
            \A i \in 1..Len(walk) :
                IsFileEntry(walk[i]) =>
                    fs[remote_path(walk[i].rel)] = walk[i].data)

\* C10 witness: sub/ was on the remote side before the run, its mkdir
\* failed, and the mirror completed with sub/b.txt written.
C10_Witness ==
    /\ fsAtCall[remote_path(<<"sub">>)] = "dir"
    /\ dirErrs >= 1
    /\ pc = "channel_session"
    /\ fs[remote_path(<<"sub", "b.txt">>)] = "dataB"

\* C11: the first file entry whose local read or remote create or write
\* fails ends the mirror there: exec has returned the error at that entry,
\* the files written before it are still in place, no later file entry has
\* been written, and no command channel was opened; a remote file left
\* empty by a failed write is always the entry the run stopped at.
C11_FileFailureAbortsMirror ==
    /\ (pc = "walk" /\ result = "Err") =>
         /\ wi <= Len(walk) /\ IsFileEntry(walk[wi])
         /\ \A j \in 1..(wi - 1) :
              IsFileEntry(walk[j]) =>
                  fs[remote_path(walk[j].rel)] = walk[j].data
         /\ \A j \in (wi + 1)..Len(walk) :
              IsFileEntry(walk[j]) =>
                  fs[remote_path(walk[j].rel)] # walk[j].data
         /\ ops \cap {"channel_session", "channel_exec"} = {}
         /\ srv = "idle"
    /\ \A i \in 1..Len(walk) :
         (IsFileEntry(walk[i]) /\ fs[remote_path(walk[i].rel)] = "empty") =>
             (result = "Err" /\ pc = "walk" /\ wi = i)

\* C11 witness: a.txt was written, then the write of sub/b.txt failed and
\* exec returned the error.
C11_Witness ==
    /\ pc = "walk" /\ result = "Err"
    /\ wi = 4 /\ walk[wi] = eB
    /\ fs[remote_path(<<"a.txt">>)] = "dataA"
    /\ fs[remote_path(<<"sub", "b.txt">>)] = "empty"

\* C12: when upload_dir has returned Ok on a workspace that did not exist
\* before, the files under container/ are exactly the file entries the
\* walker yielded, each at container/<relative path> with the contents of
\* the local file, and the ignored file is not there.
C12_MirrorFidelity ==
    (MirrorCompleted /\ fsAtCall[remote_dir_path] = "absent") =>
        /\ \A r \in RelPaths :
             /\ IsFile(fs, remote_path(r)) <=>
                  \E i \in 1..Len(walk) :
                      IsFileEntry(walk[i]) /\ walk[i].rel = r
             /\ \A i \in 1..Len(walk) :
                  (IsFileEntry(walk[i]) /\ walk[i].rel = r) =>
                      fs[remote_path(r)] = walk[i].data
        /\ ~Exists(fs, remote_path(<<"ignored.log">>))

\* C12 witness: the mirror of the tree with a.txt, sub/b.txt and the
\* ignored file has completed on a fresh workspace.
C12_Witness ==
    /\ MirrorCompleted /\ fsAtCall[remote_dir_path] = "absent"
    /\ fs[remote_path(<<"a.txt">>)] = "dataA"
    /\ fs[remote_path(<<"sub", "b.txt">>)] = "dataB"
    /\ fs[remote_path(<<"ignored.log">>)] = "absent"

\* C13: the stages run in the order authenticate, provision (directories,
\* then command.txt), mirror, execute, each only after the one before has
\* succeeded: the command is submitted only when authentication, the
\* workspace, command.txt and the whole mirror are done; and nothing that
\* exists on the remote side is ever removed.
C13_StageOrder ==
    /\ []("sftp_init" \in ops => authResult = "ok")
    /\ []("create" \in ops =>
            ("sftp_init" \in ops /\ IsDir(fs, remote_dir_path)))
    /\ [](pc = "walk" => fs[command_txt] = "cmd")
    /\ []("channel_session" \in ops =>
            /\ authResult = "ok"
            /\ IsDir(fs, remote_dir_path)
            /\ fs[command_txt] = "cmd"
            /\ wi = Len(walk) + 1)
    /\ [](srv # "idle" => "channel_exec" \in ops)
    /\ []("channel_exec" \in ops => "channel_session" \in ops)
    /\ [][\A p \in Paths : fs[p] # "absent" => fs'[p] # "absent"]_vars

\* C13 witness: the command has been submitted after every stage.
C13_Witness ==
    /\ "channel_exec" \in ops /\ srv = "running"
    /\ authResult = "ok"
    /\ fs[command_txt] = "cmd"
    /\ fs[remote_path(<<"sub", "b.txt">>)] = "dataB"

\* C14: exec ends either with Ok and a reported numeric exit status or
\* with an error and no reported status; it returns Ok only when every
\* stage succeeded, so a failure of any stage makes it return an error.
C14_OkOrErrorNeverBoth ==
    /\ result = "Ok" <=> reported # NoStatus
    /\ reported # NoStatus => reported \in 0..255
    /\ result = "Ok" =>
         /\ pc = "done"
         /\ authResult = "ok"
         /\ IsDir(fs, remote_dir_path)
         /\ fs[command_txt] = "cmd"
         /\ wi = Len(walk) + 1
         /\ {"sftp_init", "channel_session", "channel_exec", "wait_close",
             "exit_status"} \subseteq ops
         /\ remoteClose
         /\ ~readFailed
    /\ authResult = "failed" => result = "Err"
    /\ readFailed => result = "Err"

\* C14 witness: a run that ended with Ok and reported the status 7.
C14_Witness == result = "Ok" /\ reported = 7 /\ pc = "done"

\* C15: every error the walker returns is fatal: once the walk has gone
\* past an entry the walker returned as an error, exec has returned an
\* error.
C15_NoErrorSwallowed ==
    (\E i \in 1..Len(walk) : i < wi /\ walk[i].res = "err") => result = "Err"

C17_CollisionFailsAtPrefix ==
    /\ [][(pc = "mk_stat" /\ IsFile(fs, current_path(mkIdx)) /\ pc' # pc) =>
            /\ pc' = "mk_err"
            /\ mkIdx' = mkIdx
            /\ mkdirCount' = mkdirCount
            /\ fs' = fs]_vars
    /\ [][pc = "mk_err" =>
            (pc' = "mk_err" /\ mkIdx' = mkIdx /\ mkdirCount' = mkdirCount)]_vars
    /\ [](pc = "mk_err" =>
            \A j \in 1..(mkIdx - 1) : IsDir(fs, current_path(j)))
    /\ []((pc = "mk_err" /\ IsFile(fs, current_path(mkIdx))) =>
            \A j \in (mkIdx + 1)..Len(remote_dir_path) :
                fs[current_path(j)] = "absent")

\* C17 witness: the call made .cserun and .cserun/temp, then found a file
\* at .cserun/temp/<timestamp> and failed there with two mkdirs issued.
C17_Witness ==
    /\ pc = "mk_err" /\ mkIdx = 3 /\ mkdirCount = 2
    /\ IsFile(fs, current_path(3))
    /\ fsAtCall[current_path(1)] = "absent"
    /\ IsDir(fs, current_path(1)) /\ IsDir(fs, current_path(2))

\* C18: a read that completes without an error (bytes, would-block or
\* zero bytes) leaves exec running and is followed by the poll of the other
\* stream or the rest of the iteration; a read that fails otherwise ends
\* exec with an error at once, with no wait-for-close, no exit-status query
\* and no status reported.
C18_OnlyRealReadErrorsAbort ==
    /\ [][(pc = "read_out" /\ pc' # pc) =>
            (pc' = "read_err" /\ result' = "Running" /\ ~readFailed')]_vars
    /\ [][(pc = "read_err" /\ pc' # pc) =>
            (pc' \in {"loop_eof", "sleep"} /\ result' = "Running"
             /\ ~readFailed')]_vars
    /\ [][(pc \in {"read_out", "read_err"} /\ result = "Running"
           /\ result' # "Running") => (linkDown /\ readFailed')]_vars
    /\ [](readFailed =>
            /\ result = "Err"
            /\ pc \in {"read_out", "read_err"}
            /\ ops \cap {"wait_close", "exit_status"} = {}
            /\ reported = NoStatus)

\* C18 witness: standard output was polled and had nothing, then the read
\* of standard error failed and exec returned the error.
C18_Witness ==
    /\ readFailed /\ result = "Err" /\ pc = "read_err"
    /\ ~is_data_available
    /\ reported = NoStatus

\* C19: the workspace of a run is new: it did not exist before the run,
\* a command.txt that was there before is not overwritten, and nothing is
\* written into a container/ that was there before.
C19_WorkspaceFresh ==
    /\ pc = "walk" => fsAtCall[remote_dir_path] = "absent"
    /\ fsAtCall[command_txt] = "stale" => fs[command_txt] = "stale"
    /\ fsAtCall[container_path] = "dir" =>
         \A r \in RelPaths :
             fs[remote_path(r)] = fsAtCall[remote_path(r)]

====
